---- MODULE Spec2Model ----
(***************************************************************************)
(* go-npm (src/src/index.js): the `install` / `uninstall` command of a     *)
(* package that ships a Go binary through GitHub releases.                 *)
(*                                                                         *)
(* One run of the script is a Node process: the synchronous body of the    *)
(* command (Main), then the handlers the event loop calls (the release     *)
(* list response, the asset response, the gunzip / untar stream events,    *)
(* the `npm bin` subprocess callback) until process.exit or until the      *)
(* event loop has nothing left to wait for.                                *)
(*                                                                         *)
(* JavaScript strings that the code inspects character by character        *)
(* (version, assetName, binName, tag names, stdout, paths) are sequences   *)
(* of one-character strings.  JSON values are tagged records.              *)
(***************************************************************************)
EXTENDS Integers, Sequences, FiniteSets, TLC

VARIABLES
    argv,          \* process.argv[2], the command
    arch,          \* process.arch
    platform,      \* process.platform
    manifest,      \* ./package.json: absent, not JSON, or its JSON value
    env,           \* process.env: GITHUB_TOKEN and npm_config_prefix
    npmBin,        \* what `npm bin` answers: [err, stdout, stderr]
    server,        \* the release list the GitHub API serves for owner/repo
    installed,     \* paths of the files present in installation directories
    binDir,        \* TRUE iff <binPath>/<binName> exists on disk
    runsLeft,      \* further runs of the script on this machine
    pc,            \* "main", "loop" (event loop running) or "exited"
    exitCode,      \* the process's exit code once pc = "exited", else -1
    crashed,       \* TRUE iff the run ended by an uncaught exception
    opts,          \* install/uninstall: the value parsePackageJson returned
    token,         \* install: the local `token`
    requests,      \* the HTTP requests issued so far, in order
    body,          \* onReleaseResponse: the parsed response body, undefined
                   \* until a response with status 200 came
    net,           \* "idle", "releases" (list request in flight), "asset"
                   \* (asset request in flight), "piped" (response piped
                   \* through gunzip into untar), "ended" (untar emitted end)
    assetStatus,   \* status code of the asset response, 0 before it
    execPending,   \* TRUE while the `npm bin` subprocess is running
    pathCallbacks, \* the calls getInstallationPath made to its callback
    callbackCalls, \* the arguments the top-level callback was called with
    log,           \* the lines written by console.error / console.log
    placed,        \* number of fs.renameSync calls that moved the binary
    unlinks,       \* number of fs.unlinkSync calls
    swallowed      \* uninstall: the exception its catch clause caught

vars == <<argv, arch, platform, manifest, env, npmBin, server, installed,
          binDir, runsLeft, pc, exitCode, crashed, opts, token, requests, body,
          net, assetStatus, execPending, pathCallbacks, callbackCalls, log,
          placed, unlinks, swallowed>>

(***************************************************************************)
(* Bounds of the model.                                                    *)
(***************************************************************************)
MaxRuns == 3        \* runs of the script on the same machine
MaxPieces == 2      \* pieces an assetName template is built from
MaxReleases == 2    \* releases in a served release list
MaxAssets == 2      \* assets of a served release
MaxOut == 2         \* characters `npm bin` prints

(***************************************************************************)
(* JavaScript values.                                                      *)
(***************************************************************************)
Undef == [t |-> "undefined"]
Null == [t |-> "null"]
Num(n) == [t |-> "number", v |-> n]
Str(s) == [t |-> "string", v |-> s]
Bool(b) == [t |-> "boolean", v |-> b]
Obj(f) == [t |-> "object", v |-> f]
\* a string constant of the source, kept as one word
Msg(m) == [t |-> "message", v |-> m]
\* an Error object
Err(m) == [t |-> "error", v |-> m]

\* ToBoolean
Truthy(x) ==
    CASE x.t = "undefined" -> FALSE
      [] x.t = "null" -> FALSE
      [] x.t = "number" -> x.v # 0
      [] x.t = "string" -> x.v # <<>>
      [] x.t = "boolean" -> x.v
      [] OTHER -> TRUE

\* x.k for a value x that is neither undefined nor null: primitives have none
\* of the properties the code reads
Get(x, k) ==
    IF x.t = "object" /\ k \in DOMAIN x.v THEN x.v[k] ELSE Undef

(***************************************************************************)
(* Strings.                                                                *)
(***************************************************************************)
RECURSIVE Concat(_)
Concat(ss) == IF ss = <<>> THEN <<>> ELSE Head(ss) \o Concat(Tail(ss))

\* s.substr(i) / s.slice(i), 1-based
From(s, i) == SubSeq(s, i, Len(s))

MatchAt(s, i, pat) ==
    /\ i + Len(pat) - 1 <= Len(s)
    /\ SubSeq(s, i, i + Len(pat) - 1) = pat

Contains(s, pat) == \E i \in 1..Len(s) : MatchAt(s, i, pat)

\* GetSubstitution of String.prototype.replace for a pattern with no capture
\* group: $$ is a dollar, $& the match, $` the text before the match, $' the
\* text after it; any other character, a lone dollar included, is itself
RECURSIVE Expand(_, _, _, _)
Expand(rep, matched, before, after) ==
    IF rep = <<>> THEN <<>>
    ELSE IF Head(rep) = "$" /\ Len(rep) >= 2 /\ rep[2] \in {"$", "&", "`", "'"}
         THEN (CASE rep[2] = "$" -> <<"$">>
                 [] rep[2] = "&" -> matched
                 [] rep[2] = "`" -> before
                 [] rep[2] = "'" -> after)
              \o Expand(From(rep, 3), matched, before, after)
         ELSE <<Head(rep)>> \o Expand(Tail(rep), matched, before, after)

\* s.replace(/pat/g, rep) from position i on: every match, left to right,
\* none overlapping
RECURSIVE ReplaceFrom(_, _, _, _)
ReplaceFrom(s, i, pat, rep) ==
    IF i > Len(s) THEN <<>>
    ELSE IF MatchAt(s, i, pat)
         THEN Expand(rep, pat, SubSeq(s, 1, i - 1), From(s, i + Len(pat)))
              \o ReplaceFrom(s, i + Len(pat), pat, rep)
         ELSE <<s[i]>> \o ReplaceFrom(s, i + 1, pat, rep)

\* the replacement without the g flag: the first match only
RECURSIVE ReplaceFirstFrom(_, _, _, _)
ReplaceFirstFrom(s, i, pat, rep) ==
    IF i > Len(s) THEN <<>>
    ELSE IF MatchAt(s, i, pat)
         THEN Expand(rep, pat, SubSeq(s, 1, i - 1), From(s, i + Len(pat)))
              \o From(s, i + Len(pat))
         ELSE <<s[i]>> \o ReplaceFirstFrom(s, i + 1, pat, rep)

ReplaceFirst(s, pat, rep) == ReplaceFirstFrom(s, 1, pat, rep)

ReplaceAll(s, pat, rep) == ReplaceFrom(s, 1, pat, rep)

WhiteSpace == {" ", "\n"}

\* String.prototype.trim
RECURSIVE TrimStart(_)
TrimStart(s) ==
    IF s # <<>> /\ Head(s) \in WhiteSpace THEN TrimStart(Tail(s)) ELSE s

RECURSIVE TrimEnd(_)
TrimEnd(s) ==
    IF s # <<>> /\ s[Len(s)] \in WhiteSpace
    THEN TrimEnd(SubSeq(s, 1, Len(s) - 1)) ELSE s

Trim(s) == TrimEnd(TrimStart(s))

\* path.join of two segments that are already normalized
PathJoin(a, b) == a \o <<"/">> \o b

(***************************************************************************)
(* Words of the source, as character sequences.                            *)
(***************************************************************************)
TokArch == <<"{", "{", "a", "r", "c", "h", "}", "}">>
TokPlatform == <<"{", "{", "p", "l", "a", "t", "f", "o", "r", "m", "}", "}">>
TokVersion == <<"{", "{", "v", "e", "r", "s", "i", "o", "n", "}", "}">>
TokBinName == <<"{", "{", "b", "i", "n", "_", "n", "a", "m", "e", "}", "}">>
Tokens == {TokArch, TokPlatform, TokVersion, TokBinName}
DotExe == <<".", "e", "x", "e">>
Bin == <<"b", "i", "n">>
NodeModulesBin ==
    <<"n", "o", "d", "e", "_", "m", "o", "d", "u", "l", "e", "s", "/", ".",
      "b", "i", "n">>
\* process.cwd()
Cwd == <<"/", "w">>

\* Mapping from Node's process.arch to Golang's $GOARCH
ARCH_MAPPING ==
    [ia32 |-> <<"3", "8", "6">>,
     x64 |-> <<"a", "m", "d", "6", "4">>,
     arm |-> <<"a", "r", "m">>,
     arm64 |-> <<"a", "r", "m", "6", "4">>]

\* Mapping from Node's process.platform to Golang's $GOOS
PLATFORM_MAPPING ==
    [darwin |-> <<"d", "a", "r", "w", "i", "n">>,
     linux |-> <<"l", "i", "n", "u", "x">>,
     win32 |-> <<"w", "i", "n", "d", "o", "w", "s">>,
     freebsd |-> <<"f", "r", "e", "e", "b", "s", "d">>]

(***************************************************************************)
(* getInstallationPath: the directory handed to the callback, from the     *)
(* answer of `npm bin` and the environment.                                *)
(***************************************************************************)
InstallationDir(nb, e) ==
    LET failed == \/ Truthy(nb.err)
                  \/ nb.stderr # <<>>
                  \/ nb.stdout = <<>>
                  \/ Len(nb.stdout) = 0
        dir == IF failed
               THEN IF Truthy(e.npm_config_prefix)
                    THEN Str(PathJoin(e.npm_config_prefix.v, Bin))
                    ELSE Null
               ELSE Str(Trim(nb.stdout))
    IN  IF ~Truthy(dir) THEN PathJoin(Cwd, NodeModulesBin) ELSE dir.v

(***************************************************************************)
(* validateConfiguration: Throw for the TypeError of reading a property of *)
(* undefined or null, else the returned message, else undefined.           *)
(***************************************************************************)
Throw == [t |-> "throw"]

validateConfiguration(packageJson) ==
    LET goBinary == Get(packageJson, "goBinary") IN
    IF goBinary.t \in {"undefined", "null"} THEN Throw
    ELSE IF ~Truthy(Get(goBinary, "version"))
         THEN Msg("'version' property must be specified")
    ELSE IF ~Truthy(goBinary) \/ goBinary.t # "object"
         THEN Msg("'goBinary' property must be defined and be an object")
    ELSE IF ~Truthy(Get(goBinary, "name"))
         THEN Msg("'name' property is necessary")
    ELSE IF ~Truthy(Get(goBinary, "path"))
         THEN Msg("'path' property is necessary")
    ELSE IF ~Truthy(Get(goBinary, "owner"))
         THEN Msg("'owner' property is necessary")
    ELSE IF ~Truthy(Get(goBinary, "repo"))
         THEN Msg("'repo' property is necessary")
    ELSE IF ~Truthy(Get(goBinary, "assetName"))
         THEN Msg("'assetName' property is required")
    ELSE Undef

(***************************************************************************)
(* parsePackageJson, lines 138-148: the normalization of a validated       *)
(* descriptor.                                                             *)
(***************************************************************************)
StripV(version) ==
    IF version # <<>> /\ version[1] = "v" THEN From(version, 2) ELSE version

PlatformBinName(name, plat) ==
    IF plat = "win32" THEN name \o DotExe ELSE name

Substitute(assetName, goarch, goos, version, binName) ==
    LET a1 == ReplaceAll(assetName, TokArch, goarch)
        a2 == ReplaceAll(a1, TokPlatform, goos)
        a3 == ReplaceAll(a2, TokVersion, version)
    IN  ReplaceAll(a3, TokBinName, binName)

(***************************************************************************)
(* parsePackageJson: [ret, log].  ret is Throw (an exception left the      *)
(* function), undefined, or the options object.                            *)
(***************************************************************************)
parsePackageJson(a, plat, file) ==
    IF a \notin DOMAIN ARCH_MAPPING
    THEN [ret |-> Undef, log |-> <<Msg("Installation is not supported for this architecture")>>]
    ELSE IF plat \notin DOMAIN PLATFORM_MAPPING
    THEN [ret |-> Undef, log |-> <<Msg("Installation is not supported for this platform")>>]
    ELSE IF file.file = "absent"
    THEN [ret |-> Undef, log |-> <<Msg("Unable to find package.json")>>]
    ELSE IF file.file = "garbled"
    THEN [ret |-> Throw, log |-> <<>>]
    ELSE
    LET packageJson == file.json
        error == validateConfiguration(packageJson)
    IN  IF error = Throw THEN [ret |-> Throw, log |-> <<>>]
        ELSE IF Truthy(error) /\ error.t = "message"
        THEN [ret |-> Undef, log |-> <<[t |-> "invalid", v |-> error.v]>>]
        ELSE
        LET goBinary == packageJson.v.goBinary
            version == StripV(goBinary.v.version.v)
            binName == PlatformBinName(goBinary.v.name.v, plat)
        IN  [ret |-> Obj([binName |-> binName,
                          binPath |-> goBinary.v.path.v,
                          version |-> version,
                          auth |-> Get(goBinary, "auth"),
                          owner |-> goBinary.v.owner.v,
                          repo |-> goBinary.v.repo.v,
                          assetName |-> Substitute(goBinary.v.assetName.v,
                                                   ARCH_MAPPING[a],
                                                   PLATFORM_MAPPING[plat],
                                                   version, binName)]),
             log |-> <<>>]

(***************************************************************************)
(* onReleaseResponse, lines 217-227: Array.prototype.find, as the index of *)
(* the element found, 0 for undefined.                                     *)
(***************************************************************************)
\* find, falling back to the newest release when no tag matches
FindRelease_OrNewest(responseBody, tag) ==
    IF \E i \in 1..Len(responseBody) : responseBody[i].tag_name = tag
    THEN CHOOSE i \in 1..Len(responseBody) :
            /\ responseBody[i].tag_name = tag
            /\ \A j \in 1..(i - 1) : responseBody[j].tag_name # tag
    ELSE IF responseBody # <<>> THEN 1 ELSE 0

FindRelease(responseBody, tag) ==
    IF \E i \in 1..Len(responseBody) : responseBody[i].tag_name = tag
    THEN CHOOSE i \in 1..Len(responseBody) :
            /\ responseBody[i].tag_name = tag
            /\ \A j \in 1..(i - 1) : responseBody[j].tag_name # tag
    ELSE 0

\* the last asset of that name instead of the first
FindAsset_Last(assets, assetName) ==
    IF \E i \in 1..Len(assets) : assets[i].name = assetName
    THEN CHOOSE i \in 1..Len(assets) :
            /\ assets[i].name = assetName
            /\ \A j \in (i + 1)..Len(assets) : assets[j].name # assetName
    ELSE 0

FindAsset(assets, assetName) ==
    IF \E i \in 1..Len(assets) : assets[i].name = assetName
    THEN CHOOSE i \in 1..Len(assets) :
            /\ assets[i].name = assetName
            /\ \A j \in 1..(i - 1) : assets[j].name # assetName
    ELSE 0

\* install, lines 187-191: the local `token` after the auth block
ReadToken_Always(auth, e) == e.GITHUB_TOKEN

ReadToken(auth, e) == IF Truthy(auth) THEN e.GITHUB_TOKEN ELSE Undef

\* the authorization header of both requests
Authorization(tok) ==
    IF Truthy(tok) THEN Str(<<"t", "o", "k", "e", "n", " ">> \o tok.v) ELSE Undef

(***************************************************************************)
(* The ways a handler ends the process.                                    *)
(***************************************************************************)
\* the callback handed to install / uninstall, lines 287-294
Callback(err, lg) ==
    /\ callbackCalls' = Append(callbackCalls, err)
    /\ log' = IF Truthy(err) THEN Append(lg, err) ELSE lg
    /\ exitCode' = IF Truthy(err) THEN 1 ELSE 0
    /\ pc' = "exited"
    /\ crashed' = FALSE

\* an exception no handler catches: Node prints it and exits with code 1
Uncaught(lg) ==
    /\ callbackCalls' = callbackCalls
    /\ log' = Append(lg, Err("uncaught"))
    /\ exitCode' = 1
    /\ pc' = "exited"
    /\ crashed' = TRUE

Environment == <<arch, platform, manifest, env, npmBin, server>>

(***************************************************************************)
(* Lines 279-285: a command that is neither install nor uninstall.         *)
(***************************************************************************)
BadCommand ==
    /\ pc = "main"
    /\ argv \notin {"install", "uninstall"}
    /\ log' = Append(log, Msg("Invalid command to go-npm"))
    /\ exitCode' = 1
    /\ pc' = "exited"
    /\ UNCHANGED <<argv, Environment, installed, binDir, runsLeft, crashed,
                   opts, token, requests, body, net, assetStatus, execPending,
                   pathCallbacks, callbackCalls, placed, unlinks, swallowed>>

(***************************************************************************)
(* install, lines 170-204 and 253: the synchronous part.                   *)
(***************************************************************************)
Install ==
    /\ pc = "main"
    /\ argv = "install"
    /\ LET r == parsePackageJson(arch, platform, manifest)
           lg == log \o r.log
       IN
       IF r.ret = Throw
       THEN /\ Uncaught(lg)
            /\ UNCHANGED <<opts, token, requests, net>>
       ELSE
       /\ opts' = r.ret
       /\ IF ~Truthy(r.ret)
          THEN /\ Callback(Msg("Invalid inputs"), lg)
               /\ UNCHANGED <<token, requests, net>>
          ELSE
          LET tok == ReadToken(r.ret.v.auth, env)
          IN
          /\ token' = tok
          /\ pc' = "loop"
          /\ UNCHANGED <<exitCode, crashed, callbackCalls>>
          /\ IF Truthy(r.ret.v.auth) /\ ~Truthy(tok)
             THEN /\ log' = Append(lg, Msg("Please provide GITHUB_TOKEN"))
                  /\ UNCHANGED <<requests, net>>
             ELSE /\ log' = lg
                  /\ requests' = Append(requests,
                        [kind |-> "releases",
                         owner |-> r.ret.v.owner,
                         repo |-> r.ret.v.repo,
                         authorization |-> Authorization(tok)])
                  /\ net' = "releases"
    /\ UNCHANGED <<argv, Environment, installed, binDir, runsLeft, body,
                   assetStatus, execPending, pathCallbacks, placed, unlinks,
                   swallowed>>

(***************************************************************************)
(* The event loop has nothing left to wait for: the process ends, code 0.  *)
(***************************************************************************)
EventLoopEmpty ==
    /\ pc = "loop"
    /\ net = "idle"
    /\ ~execPending
    /\ pc' = "exited"
    /\ exitCode' = 0
    /\ UNCHANGED <<argv, Environment, installed, binDir, runsLeft, crashed,
                   opts, token, requests, body, net, assetStatus, execPending,
                   pathCallbacks, callbackCalls, log, placed, unlinks,
                   swallowed>>

(***************************************************************************)
(* onReleaseResponse, lines 206-251.                                       *)
(***************************************************************************)
ReleaseResponse ==
    /\ pc = "loop"
    /\ net = "releases"
    /\ \E outcome \in {"error", "404", "200"} :
        IF outcome = "error"
        THEN /\ Callback(Msg("Error downloading from URL"), log)
             /\ UNCHANGED <<body, requests, net>>
        ELSE IF outcome # "200"
        THEN /\ Callback(Msg("Error requesting release info"), log)
             /\ UNCHANGED <<body, requests, net>>
        ELSE
        LET tag == <<"v">> \o opts.v.version
            responseBody == server
            r == FindRelease(responseBody, tag)
        IN
        /\ body' = [t |-> "array", v |-> responseBody]
        /\ IF r = 0
           THEN /\ Callback(Msg("Release not found"), log)
                /\ UNCHANGED <<requests, net>>
           ELSE
           LET release == responseBody[r]
               a == FindAsset(release.assets, opts.v.assetName)
           IN
           IF a = 0
           THEN /\ Callback(Msg("Asset not found"), log)
                /\ UNCHANGED <<requests, net>>
           ELSE /\ requests' = Append(requests,
                      [kind |-> "asset",
                       owner |-> opts.v.owner,
                       repo |-> opts.v.repo,
                       asset_id |-> release.assets[a].id,
                       authorization |-> Authorization(token)])
                /\ net' = "asset"
                /\ UNCHANGED <<pc, exitCode, crashed, callbackCalls, log>>
    /\ UNCHANGED <<argv, Environment, installed, binDir, runsLeft, opts, token,
                   assetStatus, execPending, pathCallbacks, placed, unlinks,
                   swallowed>>

(***************************************************************************)
(* Lines 245-250: the events of the asset request.                         *)
(***************************************************************************)
AssetError ==
    /\ pc = "loop"
    /\ net \in {"asset", "piped"}
    /\ Callback(Msg("Error downloading from URL: undefined"), log)
    /\ UNCHANGED <<argv, Environment, installed, binDir, runsLeft, opts, token,
                   requests, body, net, assetStatus, execPending,
                   pathCallbacks, placed, unlinks, swallowed>>

\* the response piped whatever its status
AssetResponse_PipesAnyStatus ==
    /\ pc = "loop"
    /\ net = "asset"
    /\ assetStatus = 0
    /\ \E statusCode \in {200, 404} :
        /\ assetStatus' = statusCode
        /\ net' = "piped"
        /\ UNCHANGED <<pc, exitCode, crashed, callbackCalls, log>>
    /\ UNCHANGED <<argv, Environment, installed, binDir, runsLeft, opts, token,
                   requests, body, execPending, pathCallbacks, placed, unlinks,
                   swallowed>>

AssetResponse ==
    /\ pc = "loop"
    /\ net = "asset"
    /\ assetStatus = 0
    /\ \E statusCode \in {200, 404} :
        /\ assetStatus' = statusCode
        /\ IF statusCode # 200
           THEN /\ Callback(Msg("Error downloading binary"), log)
                /\ net' = net
           ELSE /\ net' = "piped"
                /\ UNCHANGED <<pc, exitCode, crashed, callbackCalls, log>>
    /\ UNCHANGED <<argv, Environment, installed, binDir, runsLeft, opts, token,
                   requests, body, execPending, pathCallbacks, placed, unlinks,
                   swallowed>>

(***************************************************************************)
(* Lines 179-180: the error events of the gunzip and untar streams.        *)
(***************************************************************************)
UngzError ==
    /\ pc = "loop"
    /\ net = "piped"
    /\ Callback(Err("gunzip"), log)
    /\ UNCHANGED <<argv, Environment, installed, binDir, runsLeft, opts, token,
                   requests, body, net, assetStatus, execPending,
                   pathCallbacks, placed, unlinks, swallowed>>

UntarError ==
    /\ pc = "loop"
    /\ net = "piped"
    /\ Callback(Err("untar"), log)
    /\ UNCHANGED <<argv, Environment, installed, binDir, runsLeft, opts, token,
                   requests, body, net, assetStatus, execPending,
                   pathCallbacks, placed, unlinks, swallowed>>

(***************************************************************************)
(* Line 177: untar writes the archive's entry named binName into binPath.  *)
(***************************************************************************)
UntarEntry ==
    /\ pc = "loop"
    /\ net = "piped"
    /\ ~binDir
    /\ binDir' = TRUE
    /\ UNCHANGED <<argv, Environment, installed, runsLeft, pc, exitCode,
                   crashed, opts, token, requests, body, net, assetStatus,
                   execPending, pathCallbacks, callbackCalls, log, placed,
                   unlinks, swallowed>>

(***************************************************************************)
(* Line 184 and verifyAndPlaceBinary, lines 60-63: untar's end event.      *)
(***************************************************************************)
UntarEnd ==
    /\ pc = "loop"
    /\ net = "piped"
    /\ net' = "ended"
    /\ IF ~binDir
       THEN /\ Callback(Msg("Downloaded binary does not contain the binary"), log)
            /\ UNCHANGED execPending
       ELSE /\ execPending' = TRUE
            /\ UNCHANGED <<pc, exitCode, crashed, callbackCalls, log>>
    /\ UNCHANGED <<argv, Environment, installed, binDir, runsLeft, opts, token,
                   requests, body, assetStatus, pathCallbacks, placed, unlinks,
                   swallowed>>

(***************************************************************************)
(* getInstallationPath's exec callback, lines 34-56, continued in          *)
(* verifyAndPlaceBinary, lines 63-70.  renameSync throws when the target   *)
(* directory cannot take the file.                                         *)
(***************************************************************************)
PlaceBinary ==
    /\ pc = "loop"
    /\ execPending
    /\ argv = "install"
    /\ LET installationPath == InstallationDir(npmBin, env) IN
       /\ pathCallbacks' = Append(pathCallbacks,
                                  [err |-> Null, dir |-> installationPath])
       /\ execPending' = FALSE
       /\ \E renamed \in BOOLEAN :
            IF renamed
            THEN /\ installed' = installed \cup
                                 {PathJoin(installationPath, opts.v.binName)}
                 /\ binDir' = FALSE
                 /\ placed' = placed + 1
                 /\ Callback(Null, log)
            ELSE /\ Uncaught(log)
                 /\ UNCHANGED <<installed, binDir, placed>>
    /\ UNCHANGED <<argv, Environment, runsLeft, opts, token, requests, body,
                   net, assetStatus, unlinks, swallowed>>

(***************************************************************************)
(* uninstall, lines 256-259: the synchronous part.                         *)
(***************************************************************************)
Uninstall ==
    /\ pc = "main"
    /\ argv = "uninstall"
    /\ LET r == parsePackageJson(arch, platform, manifest) IN
       IF r.ret = Throw
       THEN /\ Uncaught(log \o r.log)
            /\ UNCHANGED <<opts, execPending>>
       ELSE /\ opts' = r.ret
            /\ log' = log \o r.log
            /\ execPending' = TRUE
            /\ pc' = "loop"
            /\ UNCHANGED <<exitCode, crashed, callbackCalls>>
    /\ UNCHANGED <<argv, Environment, installed, binDir, runsLeft, token,
                   requests, body, net, assetStatus, pathCallbacks, placed,
                   unlinks, swallowed>>

(***************************************************************************)
(* uninstall's callback of getInstallationPath, lines 259-269.  Reading    *)
(* opts.binName of an undefined opts throws inside the try block.          *)
(***************************************************************************)
\* unlinkSync outside any try block
RemoveBinary_NoCatch ==
    /\ pc = "loop"
    /\ execPending
    /\ argv = "uninstall"
    /\ LET installationPath == InstallationDir(npmBin, env) IN
       /\ pathCallbacks' = Append(pathCallbacks,
                                  [err |-> Null, dir |-> installationPath])
       /\ execPending' = FALSE
       /\ swallowed' = Undef
       /\ IF opts.t # "object"
          THEN /\ Uncaught(log)
               /\ UNCHANGED <<installed, unlinks>>
          ELSE LET file == PathJoin(installationPath, opts.v.binName) IN
               /\ unlinks' = unlinks + 1
               /\ installed' = installed \ {file}
               /\ IF file \in installed THEN Callback(Null, log)
                  ELSE Uncaught(log)
    /\ UNCHANGED <<argv, Environment, binDir, runsLeft, opts, token, requests,
                   body, net, assetStatus, placed>>

RemoveBinary ==
    /\ pc = "loop"
    /\ execPending
    /\ argv = "uninstall"
    /\ LET installationPath == InstallationDir(npmBin, env) IN
       /\ pathCallbacks' = Append(pathCallbacks,
                                  [err |-> Null, dir |-> installationPath])
       /\ execPending' = FALSE
       /\ IF opts.t # "object"
          THEN /\ swallowed' = Err("TypeError")
               /\ UNCHANGED <<installed, unlinks>>
          ELSE LET file == PathJoin(installationPath, opts.v.binName) IN
               /\ unlinks' = unlinks + 1
               /\ installed' = installed \ {file}
               /\ swallowed' = IF file \in installed THEN Undef
                               ELSE Err("ENOENT")
       /\ Callback(Null, log)
    /\ UNCHANGED <<argv, Environment, binDir, runsLeft, opts, token, requests,
                   body, net, assetStatus, placed>>

(***************************************************************************)
(* The script is run again on the same machine: the files stay.            *)
(***************************************************************************)
Relaunch ==
    /\ pc = "exited"
    /\ runsLeft > 0
    /\ runsLeft' = runsLeft - 1
    /\ argv' \in {"install", "uninstall"}
    /\ pc' = "main"
    /\ exitCode' = -1
    /\ crashed' = FALSE
    /\ opts' = Undef
    /\ token' = Undef
    /\ requests' = <<>>
    /\ body' = Undef
    /\ net' = "idle"
    /\ assetStatus' = 0
    /\ execPending' = FALSE
    /\ pathCallbacks' = <<>>
    /\ callbackCalls' = <<>>
    /\ log' = <<>>
    /\ placed' = 0
    /\ unlinks' = 0
    /\ swallowed' = Undef
    /\ UNCHANGED <<Environment, installed, binDir>>

Next ==
    \/ BadCommand
    \/ Install
    \/ EventLoopEmpty
    \/ ReleaseResponse
    \/ AssetError
    \/ AssetResponse
    \/ UngzError
    \/ UntarError
    \/ UntarEntry
    \/ UntarEnd
    \/ PlaceBinary
    \/ Uninstall
    \/ RemoveBinary
    \/ Relaunch

(***************************************************************************)
(* The inputs: the machine the script runs on and the release server.      *)
(***************************************************************************)
SeqsUpTo(S, n) == UNION {[1..k -> S] : k \in 0..n}

NoFile == [file |-> "absent"]
Garbled == [file |-> "garbled"]
File(json) == [file |-> "json", json |-> json]

Required == {"version", "name", "path", "owner", "repo", "assetName"}

\* package.json with the goBinary property gb
Package(gb) == File(Obj([name |-> Str(<<"p">>), goBinary |-> gb]))
PackageWithoutGoBinary == File(Obj([name |-> Str(<<"p">>)]))

Descriptor(version, name, assetName) ==
    [version |-> Str(version), name |-> Str(name), path |-> Str(<<"b">>),
     owner |-> Str(<<"o">>), repo |-> Str(<<"r">>),
     assetName |-> Str(assetName)]

DefaultTemplate == <<"t", "-">> \o TokPlatform
DefaultDescriptor == Descriptor(<<"v", "1">>, <<"t">>, DefaultTemplate)
DefaultManifest == Package(Obj(DefaultDescriptor))

\* a descriptor in which each required property is absent, empty or set
PartialDescriptor(c) ==
    [k \in {f \in Required : c[f] # "absent"} |->
        IF c[k] = "empty" THEN Str(<<>>) ELSE DefaultDescriptor[k]]

ValidationManifests ==
    {PackageWithoutGoBinary}
    \cup {Package(gb) : gb \in {Null, Num(0), Num(5), Str(<<>>), Str(<<"x">>),
                                Bool(TRUE)}}
    \cup {Package(Obj(PartialDescriptor(c))) :
            c \in [Required -> {"absent", "empty", "set"}]}

TemplatePieces ==
    Tokens \cup {<<"{", "{">>, <<"}", "}">>, <<"t">>}
Templates ==
    {Concat(ps) : ps \in SeqsUpTo(TemplatePieces, MaxPieces)}
TemplateVersions ==
    {<<"1">>, <<"v", "1">>, TokArch, <<"$", "&">>, <<"$", "'">>,
     <<"a", "r", "c", "h", "}", "}">>}
TemplateNames == {<<"t">>, TokVersion, <<"$", "&">>}
TemplateManifests ==
    {Package(Obj(Descriptor(v, n, a))) :
        v \in TemplateVersions, n \in TemplateNames, a \in Templates}

BaseManifests ==
    {NoFile, Garbled, PackageWithoutGoBinary,
     Package(Obj(PartialDescriptor([k \in Required |->
                    IF k = "name" THEN "absent" ELSE "set"]))),
     DefaultManifest,
     Package(Obj(DefaultDescriptor @@ [auth |-> Bool(TRUE)])),
     Package(Obj(DefaultDescriptor @@ [auth |-> Bool(FALSE)]))}

Envs ==
    [GITHUB_TOKEN : {Undef, Str(<<"s">>)},
     npm_config_prefix : {Undef, Str(<<"/", "p">>)}]
DefaultEnv == [GITHUB_TOKEN |-> Undef, npm_config_prefix |-> Undef]

OutChars == {" ", "\n", "/", "n"}
NpmBins ==
    [err : {Null, Err("exec")},
     stderr : {<<>>, <<"w">>},
     stdout : SeqsUpTo(OutChars, MaxOut)]
DefaultNpmBin == [err |-> Null, stderr |-> <<>>, stdout |-> <<"/", "n", "\n">>]
BaseNpmBins ==
    {DefaultNpmBin,
     [err |-> Err("exec"), stderr |-> <<>>, stdout |-> <<>>],
     [err |-> Null, stderr |-> <<>>, stdout |-> <<"\n">>]}

Tags == {<<"v", "1">>, <<"v", "2">>}
AssetNames == {<<"t", "-", "l", "i", "n", "u", "x">>, <<"x">>}
\* the served list: the i-th release's j-th asset has id 10 * i + j
BodyOf(shape) ==
    [i \in 1..Len(shape) |->
        [tag_name |-> shape[i].tag_name,
         assets |-> [j \in 1..Len(shape[i].names) |->
                        [name |-> shape[i].names[j], id |-> 10 * i + j]]]]
Bodies ==
    {BodyOf(shape) :
        shape \in SeqsUpTo([tag_name : Tags,
                            names : SeqsUpTo(AssetNames, MaxAssets)],
                           MaxReleases)}
DefaultServer ==
    BodyOf(<<[tag_name |-> <<"v", "1">>,
              names |-> <<<<"t", "-", "l", "i", "n", "u", "x">>>>]>>)
BaseServers ==
    {<<>>, DefaultServer,
     BodyOf(<<[tag_name |-> <<"v", "1">>, names |-> <<<<"x">>>>]>>)}

Machines ==
    {<<"x64", "linux">>, <<"x64", "win32">>, <<"mips", "linux">>,
     <<"arm64", "sunos">>}

(***************************************************************************)
(* The state as the script starts.                                         *)
(***************************************************************************)
Start ==
    /\ installed = {}
    /\ binDir = FALSE
    /\ pc = "main"
    /\ exitCode = -1
    /\ crashed = FALSE
    /\ opts = Undef
    /\ token = Undef
    /\ requests = <<>>
    /\ body = Undef
    /\ net = "idle"
    /\ assetStatus = 0
    /\ execPending = FALSE
    /\ pathCallbacks = <<>>
    /\ callbackCalls = <<>>
    /\ log = <<>>
    /\ placed = 0
    /\ unlinks = 0
    /\ swallowed = Undef

\* every kind of machine, manifest, environment and server, a few of each,
\* and the script run up to MaxRuns times
InitMachines ==
    /\ argv \in {"install", "uninstall", "help"}
    /\ \E m \in Machines : arch = m[1] /\ platform = m[2]
    /\ manifest \in BaseManifests
    /\ env \in Envs
    /\ npmBin \in BaseNpmBins
    /\ server \in BaseServers
    /\ runsLeft = MaxRuns - 1

\* every manifest, on one machine
InitManifests ==
    /\ argv = "uninstall"
    /\ arch = "x64"
    /\ platform \in {"linux", "win32"}
    /\ manifest \in ValidationManifests \cup TemplateManifests
    /\ env = DefaultEnv
    /\ npmBin = DefaultNpmBin
    /\ server = DefaultServer
    /\ runsLeft = 0

\* every served release list, for one manifest
InitServers ==
    /\ argv = "install"
    /\ arch = "x64"
    /\ platform = "linux"
    /\ manifest = DefaultManifest
    /\ env = DefaultEnv
    /\ npmBin = DefaultNpmBin
    /\ server \in Bodies
    /\ runsLeft = 0

\* every answer of `npm bin`, for one manifest
InitNpmBins ==
    /\ argv = "uninstall"
    /\ arch = "x64"
    /\ platform = "linux"
    /\ manifest = DefaultManifest
    /\ env \in Envs
    /\ npmBin \in NpmBins
    /\ server = DefaultServer
    /\ runsLeft = 0

Init ==
    /\ Start
    /\ \/ InitMachines
       \/ InitManifests
       \/ InitServers
       \/ InitNpmBins

Spec == Init /\ [][Next]_vars

(***************************************************************************)
(* Properties.                                                             *)
(***************************************************************************)
Range(q) == {q[i] : i \in 1..Len(q)}
Min(S) == CHOOSE x \in S : \A y \in S : x <= y
AssetRequests == SelectSeq(requests, LAMBDA q : q.kind = "asset")
Exited(cmd) == pc = "exited" /\ argv = cmd
\* the goBinary property of the manifest read
GoBinary == Get(manifest.json, "goBinary")
\* the indices of the releases of the parsed body that carry the wanted tag
TaggedReleases ==
    {i \in 1..Len(body.v) : body.v[i].tag_name = <<"v">> \o opts.v.version}
\* the indices of the assets of release r that carry the wanted name
NamedAssets(r) ==
    {j \in 1..Len(body.v[r].assets) :
        body.v[r].assets[j].name = opts.v.assetName}

\* C1: an install run that did not place the binary ends with exit code 1,
\* after the top-level callback was called with an error or an exception was
\* left uncaught; a run that placed the binary ends with exit code 0.
C1_FailedInstallExitsOne ==
    Exited("install") =>
        IF placed = 1
        THEN exitCode = 0
        ELSE /\ exitCode = 1
             /\ \/ crashed
                \/ Len(callbackCalls) = 1 /\ Truthy(callbackCalls[1])

\* C2: fs.renameSync moves the binary only in a state where the options are
\* valid, the response body holds a release with the tag and in it an asset
\* with the name, the asset response had status 200, untar has emitted end
\* and the binary is in the extraction directory; and a run that ends with a
\* non-zero exit code has moved nothing.
C2_PlacementNeedsAllStages ==
    /\ [][placed' > placed =>
            /\ argv = "install"
            /\ opts.t = "object"
            /\ body # Undef
            /\ \E r \in TaggedReleases : NamedAssets(r) # {}
            /\ Len(AssetRequests) = 1
            /\ assetStatus = 200
            /\ net = "ended"
            /\ binDir]_vars
    /\ [](pc = "exited" /\ exitCode # 0 => placed = 0)

C2_Witness == Exited("install") /\ placed = 1 /\ exitCode = 0

\* C3: an uninstall run whose options were derived calls unlinkSync exactly
\* once, swallows its error, calls the callback once with no error and ends
\* with exit code 0, whether or not the file was there.
C3_UninstallSucceeds ==
    /\ unlinks <= 1
    /\ (Exited("uninstall") /\ opts.t = "object") =>
            /\ unlinks = 1
            /\ callbackCalls = <<Null>>
            /\ exitCode = 0
            /\ ~crashed
            /\ log = <<>>

\* a later run of uninstall that found no file to delete
C3_Witness ==
    /\ Exited("uninstall")
    /\ runsLeft < MaxRuns - 1
    /\ swallowed = Err("ENOENT")
    /\ exitCode = 0

\* C4: an uninstall run whose options could not be derived ends with exit
\* code 1 and an error on the log.
C4_UninstallWithoutOptionsFails ==
    (Exited("uninstall") /\ opts.t # "object") =>
        exitCode = 1 /\ log # <<>>

\* C5: once the release list is parsed, either no release carries the tag
\* "v" + version and the run fails with ReleaseNotFound, or the first such
\* release has no asset of the resolved name and the run fails with
\* AssetNotFound, or the one asset request issued asks for the id of the first
\* such asset of the first such release.
C5_FirstReleaseFirstAsset ==
    (argv = "install" /\ body # Undef) =>
        IF TaggedReleases = {}
        THEN /\ callbackCalls = <<Msg("Release not found")>>
             /\ exitCode = 1
             /\ AssetRequests = <<>>
        ELSE LET r == Min(TaggedReleases) IN
             IF NamedAssets(r) = {}
             THEN /\ callbackCalls = <<Msg("Asset not found")>>
                  /\ exitCode = 1
                  /\ AssetRequests = <<>>
             ELSE /\ Len(AssetRequests) = 1
                  /\ AssetRequests[1].asset_id =
                        body.v[r].assets[Min(NamedAssets(r))].id

\* two releases carry the tag, the first holds two assets of the name
C5_Witness ==
    /\ net = "asset"
    /\ body # Undef
    /\ Cardinality(TaggedReleases) = 2
    /\ Cardinality(NamedAssets(1)) = 2
    /\ NamedAssets(2) # {}

\* C6: while the release query has not answered with status 200, or when no
\* release of the answer carries the tag, or the first that does has no asset
\* of the resolved name, no asset request has been issued and nothing has
\* been piped into gunzip and untar.
C6_NoDownloadWithoutMatch ==
    (argv = "install" /\ opts.t = "object"
     /\ (\/ body = Undef
         \/ TaggedReleases = {}
         \/ NamedAssets(Min(TaggedReleases)) = {})) =>
        /\ AssetRequests = <<>>
        /\ net \in {"idle", "releases"}
        /\ assetStatus = 0

\* the release list came, non-empty, and no release carries the tag
C6_Witness ==
    /\ Exited("install")
    /\ body # Undef
    /\ body.v # <<>>
    /\ body.v[1].assets # <<>>
    /\ TaggedReleases = {}
    /\ callbackCalls = <<Msg("Release not found")>>

\* the required properties in the order they are checked, and their messages
FieldOrder == <<"version", "name", "path", "owner", "repo", "assetName">>
FieldMessage ==
    [version |-> "'version' property must be specified",
     name |-> "'name' property is necessary",
     path |-> "'path' property is necessary",
     owner |-> "'owner' property is necessary",
     repo |-> "'repo' property is necessary",
     assetName |-> "'assetName' property is required"]
MissingFields == {i \in 1..Len(FieldOrder) : ~Truthy(Get(GoBinary, FieldOrder[i]))}
\* parsePackageJson has read a manifest that is JSON
Parsed ==
    /\ pc # "main"
    /\ argv \in {"install", "uninstall"}
    /\ arch \in DOMAIN ARCH_MAPPING
    /\ platform \in DOMAIN PLATFORM_MAPPING
    /\ manifest.file = "json"
InvalidLines == {l \in Range(log) : l.t = "invalid"}
\* C7: of a manifest that parses, on a supported machine: when goBinary is
\* not an object or a required property is missing or empty, the run logs
\* "Invalid package.json" (naming the first missing property of an object
\* descriptor) and no exception is thrown; otherwise the options are
\* returned.
C7_ValidationReportsOrSucceeds ==
    Parsed =>
        IF GoBinary.t = "object" /\ MissingFields = {}
        THEN opts.t = "object" /\ InvalidLines = {}
        ELSE /\ ~crashed
             /\ opts = Undef
             /\ InvalidLines # {}
             /\ GoBinary.t = "object" =>
                    \E l \in InvalidLines :
                        l.v = FieldMessage[FieldOrder[Min(MissingFields)]]

\* C8, as stated: the resolved assetName holds none of the four placeholders.
C8_NoPlaceholderLeft ==
    opts.t = "object" =>
        \A tok \in Tokens : ~Contains(opts.v.assetName, tok)

\* a template in which every brace belongs to one of the four placeholders
RECURSIVE WellFormedFrom(_, _)
WellFormedFrom(s, i) ==
    IF i > Len(s) THEN TRUE
    ELSE IF \E tok \in Tokens : MatchAt(s, i, tok)
         THEN WellFormedFrom(s, i + Len(CHOOSE tok \in Tokens : MatchAt(s, i, tok)))
         ELSE s[i] \notin {"{", "}"} /\ WellFormedFrom(s, i + 1)
WellFormed(s) == WellFormedFrom(s, 1)
Plain(s) == \A i \in 1..Len(s) : s[i] \notin {"{", "$"}
Resubstituted ==
    Substitute(opts.v.assetName, ARCH_MAPPING[arch], PLATFORM_MAPPING[platform],
               opts.v.version, opts.v.binName)

\* C8, amended: when every brace of the template belongs to a placeholder and
\* the resolved version and bin_name hold neither "{" nor "$", the resolved
\* assetName holds none of the four placeholders and substituting again
\* returns it unchanged.
C8_NoPlaceholderLeftForPlainValues ==
    (/\ opts.t = "object"
     /\ WellFormed(GoBinary.v.assetName.v)
     /\ Plain(opts.v.version)
     /\ Plain(opts.v.binName)) =>
        /\ \A tok \in Tokens : ~Contains(opts.v.assetName, tok)
        /\ Resubstituted = opts.v.assetName

\* a template of two placeholders, resolved
C8_Witness ==
    /\ opts.t = "object"
    /\ WellFormed(GoBinary.v.assetName.v)
    /\ Plain(opts.v.version)
    /\ Plain(opts.v.binName)
    /\ GoBinary.v.assetName.v = TokBinName \o TokBinName
    /\ opts.v.assetName = opts.v.binName \o opts.v.binName

\* C9: with auth false or absent no request carries an authorization header;
\* with auth true and GITHUB_TOKEN set every request carries the token; with
\* auth true and GITHUB_TOKEN unset no request is issued.
C9_TokenOnlyWithAuth ==
    opts.t = "object" =>
        IF ~Truthy(Get(GoBinary, "auth"))
        THEN \A q \in Range(requests) : q.authorization = Undef
        ELSE IF Truthy(env.GITHUB_TOKEN)
        THEN \A q \in Range(requests) :
                q.authorization =
                    Str(<<"t", "o", "k", "e", "n", " ">> \o env.GITHUB_TOKEN.v)
        ELSE requests = <<>>

\* both requests issued, with the token
C9_Witness ==
    /\ Len(requests) = 2
    /\ \A q \in Range(requests) : q.authorization # Undef

\* the directory the priority order of the three sources gives
ClaimedDir ==
    IF /\ ~Truthy(npmBin.err)
       /\ npmBin.stderr = <<>>
       /\ Trim(npmBin.stdout) # <<>>
    THEN Trim(npmBin.stdout)
    ELSE IF env.npm_config_prefix # Undef
         THEN PathJoin(env.npm_config_prefix.v, Bin)
         ELSE PathJoin(Cwd, NodeModulesBin)
\* C10: getInstallationPath calls its callback once, with the trimmed stdout
\* of `npm bin` when that answer is clean and yields a non-empty path, else
\* with npm_config_prefix/bin when the variable is set, else with
\* node_modules/.bin under the working directory.
C10_PathByPriority ==
    /\ Len(pathCallbacks) <= 1
    /\ pathCallbacks # <<>> =>
            /\ pathCallbacks[1].err = Null
            /\ pathCallbacks[1].dir # <<>>
            /\ pathCallbacks[1].dir = ClaimedDir
====
